---- MODULE Spec2Model ----
(***************************************************************************)
(* Model of src/src/operations/utils.ts: the byte-size estimator, the UTXO *)
(* funder (addUTXOsToFund), the signing driver (signInputs) and the base40 *)
(* decoder (decodeB40).                                                    *)
(*                                                                         *)
(* A transaction is a pair of sequences txIns / txOuts.  An input is a     *)
(* record [tx_hash, tx_output_n, script] and an output a record [script],  *)
(* where script is the length of the script (0 = no script yet).           *)
(* Each component has its own specification over the shared variables:     *)
(*   SpecFund  addUTXOsToFund, one step per call frame of the recursion    *)
(*   SpecEst   estimateTXBytes                                             *)
(*   SpecSign  signInputs, one step per resumption of the async function   *)
(*   SpecB40   decodeB40                                                   *)
(***************************************************************************)
EXTENDS Integers, Sequences, FiniteSets, TLC

VARIABLES
    txIns,          \* innerTx.ins  of the transaction in progress
    txOuts,         \* innerTx.outs of the transaction in progress
    \* ---- addUTXOsToFund
    utxos,          \* the caller's UTXO array (the array object passed in)
    pool,           \* the `utxos` parameter of the current call frame
    amountToFund,   \* the `amountToFund` parameter of the current call frame
    feeRate,        \* the `feeRate` parameter
    fundNewFees,    \* the `fundNewFees` parameter
    depth,          \* number of recursive calls made so far
    fpc,            \* "idle" | "call" | "returned" | "thrown"
    fres,           \* returned change, or the amount carried by the error
    utxos0,         \* history: the caller's array as it was at the call
    amount0,        \* history: amountToFund of the initial call
    ins0,           \* history: the inputs of the transaction at the call
    \* ---- estimateTXBytes
    est,            \* results of the last estimate calls
    \* ---- signInputs
    defaultSigner,  \* the `defaultSigner` parameter
    otherSigners,   \* the `otherSigners` parameter (<<>> when absent)
    signerArray,    \* local signerArray
    si,             \* loop variable i
    spc,            \* "idle" | "call" | "awaiting" | "resolved" | "rejected"
    serr,           \* the error the promise of signInputs rejected with
    running,        \* signer invocations in progress: set of [index, signer]
    calls,          \* history: signer events, in order
    sfail,          \* history: what the failing signer raised, and where
    \* ---- decodeB40
    b40in,          \* the `input` parameter, a sequence of characters
    bpc,            \* "idle" | "call" | "returned" | "thrown"
    b40out          \* the returned string, a sequence of characters

txVars   == <<txIns, txOuts>>
fundVars == <<utxos, pool, amountToFund, feeRate, fundNewFees, depth, fpc, fres,
              utxos0, amount0, ins0>>
estVars  == <<est>>
signVars == <<defaultSigner, otherSigners, signerArray, si, spc, serr, running,
              calls, sfail>>
b40Vars  == <<b40in, bpc, b40out>>
vars     == <<txVars, fundVars, estVars, signVars, b40Vars>>

(***************************************************************************)
(* Bounds of the model                                                     *)
(***************************************************************************)
MaxPool == 3          \* UTXOs in the pool passed to addUTXOsToFund
MaxFeeRate == 2       \* fee rates 1..MaxFeeRate satoshis/byte
MaxTxLen == 1         \* existing inputs of a transaction being funded
MaxEstLen == 2        \* existing inputs (outputs) of a transaction being estimated
MaxAdd == 2           \* additionalInputs / additionalOutputs
MaxSignIns == 3       \* inputs of a transaction being signed
MaxOverrides == 2     \* entries of otherSigners
MaxB40Len == 3        \* characters of the input of decodeB40

\* script lengths of existing inputs/outputs: none yet, or a concrete script
ScriptLens == {0, 23}
\* values of UTXOs (positive), around the one-input fees 148 and 296
ValueSet == {100, 148, 300, 1000, 6000}
\* amounts to fund (>= 0)
AmountSet == {0, 152, 304, 400, 5000}

(***************************************************************************)
(* Byte-size estimator                                                     *)
(***************************************************************************)
TX_EMPTY_SIZE == 4 + 1 + 1 + 4
TX_INPUT_BASE == 32 + 4 + 1 + 4
TX_INPUT_PUBKEYHASH == 107
TX_OUTPUT_BASE == 8 + 1
TX_OUTPUT_PUBKEYHASH == 25

\* the `null` placeholder of estimateTXBytes, and a concrete txPoint
NullPoint == [isNull |-> TRUE, script |-> 0]
Point(x) == [isNull |-> FALSE, script |-> x.script]

\* mutant: an input without a script counts its base size only
inputBytesBaseOnly(input) ==
    IF ~input.isNull /\ input.script > 0
    THEN TX_INPUT_BASE + input.script
    ELSE TX_INPUT_BASE

inputBytes(input) ==
    IF ~input.isNull /\ input.script > 0
    THEN TX_INPUT_BASE + input.script
    ELSE TX_INPUT_BASE + TX_INPUT_PUBKEYHASH

outputBytes(output) ==
    IF ~output.isNull /\ output.script > 0
    THEN TX_OUTPUT_BASE + output.script
    ELSE TX_OUTPUT_BASE + TX_OUTPUT_PUBKEYHASH

RECURSIVE SumInputBytes(_)
SumInputBytes(s) ==
    IF s = <<>> THEN 0 ELSE inputBytes(Head(s)) + SumInputBytes(Tail(s))

RECURSIVE SumOutputBytes(_)
SumOutputBytes(s) ==
    IF s = <<>> THEN 0 ELSE outputBytes(Head(s)) + SumOutputBytes(Tail(s))

transactionBytes(inputs, outputs) ==
    TX_EMPTY_SIZE + SumInputBytes(inputs) + SumOutputBytes(outputs)

Dummies(n) == [i \in 1..n |-> NullPoint]
Points(s) == [i \in 1..Len(s) |-> Point(s[i])]

estimateTXBytes(ins, outs, additionalInputs, additionalOutputs) ==
    transactionBytes(Points(ins) \o Dummies(additionalInputs),
                     Points(outs) \o Dummies(additionalOutputs))

(***************************************************************************)
(* UTXO funder                                                             *)
(***************************************************************************)
\* Array.prototype.sort is stable: insertion keeps the order of equal values
RECURSIVE InsertAsc(_, _)
InsertAsc(s, u) ==
    IF s = <<>> THEN <<u>>
    ELSE IF Head(s).value <= u.value THEN <<Head(s)>> \o InsertAsc(Tail(s), u)
    ELSE <<u>> \o s

RECURSIVE InsertDesc(_, _)
InsertDesc(s, u) ==
    IF s = <<>> THEN <<u>>
    ELSE IF Head(s).value >= u.value THEN <<Head(s)>> \o InsertDesc(Tail(s), u)
    ELSE <<u>> \o s

RECURSIVE SortAsc(_)
SortAsc(s) ==
    IF s = <<>> THEN <<>> ELSE InsertAsc(SortAsc(SubSeq(s, 1, Len(s) - 1)), s[Len(s)])

\* mutant: the pool is sorted by ascending value
SortDescAscending(s) == SortAsc(s)

RECURSIVE SortDesc(_)
SortDesc(s) ==
    IF s = <<>> THEN <<>> ELSE InsertDesc(SortDesc(SubSeq(s, 1, Len(s) - 1)), s[Len(s)])

\* txBuilderIn.addInput(tx_hash, tx_output_n): a new input without a script
addInput(ins, tx_hash, tx_output_n) ==
    Append(ins, [tx_hash |-> tx_hash, tx_output_n |-> tx_output_n, script |-> 0])

\* how much are we increasing fees by adding an input ?
newFees == feeRate * (estimateTXBytes(txIns, txOuts, 1, 0)
                      - estimateTXBytes(txIns, txOuts, 0, 0))

utxoThreshhold == IF fundNewFees THEN amountToFund + newFees ELSE amountToFund

\* mutant: the filter keeps only the UTXOs strictly above the threshold
goodUtxosStrict == SortAsc(SelectSeq(pool, LAMBDA utxo : utxo.value > utxoThreshhold))

\* mutant: the sufficient UTXOs are not sorted before the first is taken
goodUtxosUnsorted == SelectSeq(pool, LAMBDA utxo : utxo.value >= utxoThreshhold)

goodUtxos == SortAsc(SelectSeq(pool, LAMBDA utxo : utxo.value >= utxoThreshhold))

\* mutant: the change forgets the fee of the new input
ChangeNoFees(selected) == selected.value - amountToFund

Change(selected) ==
    IF fundNewFees THEN selected.value - amountToFund - newFees
    ELSE selected.value - amountToFund

\* mutant: the remaining target forgets the fee of the new input
RemainNoFees(largest) == amountToFund - largest.value

RemainToFund(largest) ==
    IF fundNewFees THEN amountToFund - largest.value + newFees
    ELSE amountToFund - largest.value

\* if (utxos.length === 0) throw new NotEnoughFundsError(amountToFund)
FundEmptyPool ==
    /\ fpc = "call"
    /\ Len(pool) = 0
    /\ fpc' = "thrown"
    /\ fres' = amountToFund
    /\ UNCHANGED <<txVars, utxos, pool, amountToFund, feeRate, fundNewFees, depth,
                   utxos0, amount0, ins0, estVars, signVars, b40Vars>>

\* goodUtxos.length > 0: add the smallest sufficient UTXO, return the change
FundSelectGood ==
    /\ fpc = "call"
    /\ Len(pool) # 0
    /\ Len(goodUtxos) > 0
    /\ LET selected == goodUtxos[1]
       IN /\ txIns' = addInput(txIns, selected.tx_hash, selected.tx_output_n)
          /\ fres' = Change(selected)
    /\ fpc' = "returned"
    /\ UNCHANGED <<txOuts, utxos, pool, amountToFund, feeRate, fundNewFees, depth,
                   utxos0, amount0, ins0, estVars, signVars, b40Vars>>

\* the array a frame sorts in place is the caller's own array in the first
\* frame and a slice(1) copy in the recursive frames
SortedInPlace == IF depth = 0 THEN SortDesc(pool) ELSE utxos

\* no good UTXO, and newFees >= largest.value: throw after sorting the pool
FundFeeTooHigh ==
    /\ fpc = "call"
    /\ Len(pool) # 0
    /\ Len(goodUtxos) = 0
    /\ LET largest == SortDesc(pool)[1]
       IN newFees >= largest.value
    /\ pool' = SortDesc(pool)
    /\ utxos' = SortedInPlace
    /\ fpc' = "thrown"
    /\ fres' = amountToFund
    /\ UNCHANGED <<txVars, amountToFund, feeRate, fundNewFees, depth,
                   utxos0, amount0, ins0, estVars, signVars, b40Vars>>

\* mutant: the largest UTXO is added without the test newFees >= largest.value
FundConsumeLargestNoCheck ==
    /\ fpc = "call"
    /\ Len(pool) # 0
    /\ Len(goodUtxos) = 0
    /\ LET largest == SortDesc(pool)[1]
       IN /\ txIns' = addInput(txIns, largest.tx_hash, largest.tx_output_n)
          /\ amountToFund' = RemainToFund(largest)
    /\ utxos' = SortedInPlace
    /\ pool' = Tail(SortDesc(pool))
    /\ depth' = depth + 1
    /\ UNCHANGED <<txOuts, feeRate, fundNewFees, fpc, fres,
                   utxos0, amount0, ins0, estVars, signVars, b40Vars>>

\* no good UTXO: add the largest one and recurse on utxos.slice(1)
FundConsumeLargest ==
    /\ fpc = "call"
    /\ Len(pool) # 0
    /\ Len(goodUtxos) = 0
    /\ LET largest == SortDesc(pool)[1]
       IN /\ ~(newFees >= largest.value)
          /\ txIns' = addInput(txIns, largest.tx_hash, largest.tx_output_n)
          /\ amountToFund' = RemainToFund(largest)
    /\ utxos' = SortedInPlace
    /\ pool' = Tail(SortDesc(pool))
    /\ depth' = depth + 1
    /\ UNCHANGED <<txOuts, feeRate, fundNewFees, fpc, fres,
                   utxos0, amount0, ins0, estVars, signVars, b40Vars>>

NextFund == FundEmptyPool \/ FundSelectGood \/ FundFeeTooHigh \/ FundConsumeLargest

\* the inputs and outputs a transaction can have before it is funded
ExistingIns(n) ==
    UNION {[1..k -> [tx_hash : {0}, tx_output_n : {0}, script : ScriptLens]] : k \in 0..n}
ExistingOuts(n) ==
    UNION {[1..k -> [script : ScriptLens]] : k \in 0..n}
\* outputs that have no script yet
PlainOuts(n) == {[i \in 1..k |-> [script |-> 0]] : k \in 0..n}

UTXOPools ==
    UNION {{[i \in 1..n |-> [value |-> f[i], tx_hash |-> i, tx_output_n |-> i - 1]] :
              f \in [1..n -> ValueSet]} : n \in 0..MaxPool}

IdleFund ==
    /\ utxos = <<>> /\ pool = <<>> /\ amountToFund = 0 /\ feeRate = 1
    /\ fundNewFees = TRUE /\ depth = 0 /\ fpc = "idle" /\ fres = 0
    /\ utxos0 = <<>> /\ amount0 = 0 /\ ins0 = <<>>
IdleEst == est = [called |-> FALSE, a |-> 0, b |-> 0, size |-> 0, base |-> 0]
IdleSign ==
    /\ defaultSigner = "none" /\ otherSigners = <<>> /\ signerArray = <<>>
    /\ si = 0 /\ spc = "idle" /\ serr = "none" /\ running = {} /\ calls = <<>>
    /\ sfail = [index |-> -1, error |-> "none"]
IdleB40 == b40in = <<>> /\ bpc = "idle" /\ b40out = <<>>

InitFund ==
    /\ txIns \in ExistingIns(MaxTxLen)
    /\ txOuts \in PlainOuts(1)
    /\ utxos \in UTXOPools
    /\ pool = utxos
    /\ utxos0 = utxos
    /\ amountToFund \in AmountSet
    /\ amount0 = amountToFund
    /\ ins0 = txIns
    /\ feeRate \in 1..MaxFeeRate
    /\ fundNewFees \in BOOLEAN
    /\ depth = 0
    /\ fpc = "call"
    /\ fres = 0
    /\ IdleEst /\ IdleSign /\ IdleB40

SpecFund == InitFund /\ [][NextFund]_vars

(***************************************************************************)
(* estimateTXBytes as called from outside                                  *)
(***************************************************************************)
\* estimateTXBytes(tx, a, b) and estimateTXBytes(tx, 0, 0) on the same transaction
EstimateTXBytesCall ==
    /\ \E a \in 0..MaxAdd, b \in 0..MaxAdd :
          est' = [called |-> TRUE, a |-> a, b |-> b,
                  size |-> estimateTXBytes(txIns, txOuts, a, b),
                  base |-> estimateTXBytes(txIns, txOuts, 0, 0)]
    /\ UNCHANGED <<txVars, fundVars, signVars, b40Vars>>

NextEst == EstimateTXBytesCall

InitEst ==
    /\ txIns \in ExistingIns(MaxEstLen)
    /\ txOuts \in ExistingOuts(MaxEstLen)
    /\ IdleFund /\ IdleEst /\ IdleSign /\ IdleB40

SpecEst == InitEst /\ [][NextEst]_vars

(***************************************************************************)
(* signInputs                                                              *)
(***************************************************************************)
Signers == {"default", "s1", "s2"}
SignerErrors == {"e1", "e2"}
\* lengths of the unlocking script a signer attaches
SigLens == {106, 107}

\* mutant: the overrides are not applied
ApplyOverridesNone(arr, others) == arr

\* otherSigners.forEach(pair => signerArray[pair.index] = pair.signer)
RECURSIVE ApplyOverrides(_, _)
ApplyOverrides(arr, others) ==
    IF others = <<>> THEN arr
    ELSE ApplyOverrides([arr EXCEPT ![Head(others).index + 1] = Head(others).signer],
                        Tail(others))

\* txInner.ins.map(() => defaultSigner), then the overrides
BuildSignerArray(ins, dflt, others) ==
    ApplyOverrides([k \in 1..Len(ins) |-> dflt], others)

Invocation(arr, i) == [index |-> i, signer |-> arr[i + 1]]
Event(kind, inv) == [kind |-> kind, index |-> inv.index, signer |-> inv.signer]

\* the loop from its test `i < txInner.ins.length` up to the next await
LoopFrom(arr, i) ==
    IF i < Len(txIns)
    THEN /\ running' = {Invocation(arr, i)}
         /\ calls' = Append(calls, Event("begin", Invocation(arr, i)))
         /\ spc' = "awaiting"
    ELSE /\ running' = {}
         /\ calls' = calls
         /\ spc' = "resolved"

\* the call of signInputs: runs up to the first await, or returns txB
SignInputsCall ==
    /\ spc = "call"
    /\ signerArray' = BuildSignerArray(txIns, defaultSigner, otherSigners)
    /\ si' = 0
    /\ LoopFrom(signerArray', 0)
    /\ UNCHANGED <<txVars, defaultSigner, otherSigners, serr, sfail,
                   fundVars, estVars, b40Vars>>

\* the awaited signer completes: it has attached the unlocking script of input i,
\* and the loop goes on with i + 1
SignerResolves ==
    /\ spc = "awaiting"
    /\ \E inv \in running, len \in SigLens :
          /\ txIns' = [txIns EXCEPT ![inv.index + 1].script = len]
          /\ si' = si + 1
          /\ \/ /\ si + 1 < Len(txIns)
                /\ running' = {Invocation(signerArray, si + 1)}
                /\ calls' = calls \o <<Event("end", inv),
                                       Event("begin", Invocation(signerArray, si + 1))>>
                /\ spc' = "awaiting"
             \/ /\ ~(si + 1 < Len(txIns))
                /\ running' = {}
                /\ calls' = Append(calls, Event("end", inv))
                /\ spc' = "resolved"
    /\ UNCHANGED <<txOuts, defaultSigner, otherSigners, signerArray, serr, sfail,
                   fundVars, estVars, b40Vars>>

\* mutant: the failure of a signer is caught and the loop goes on with i + 1
SignerRejectsSwallowed ==
    /\ spc = "awaiting"
    /\ \E inv \in running, e \in SignerErrors :
          /\ sfail' = [index |-> inv.index, error |-> e]
          /\ si' = si + 1
          /\ \/ /\ si + 1 < Len(txIns)
                /\ running' = {Invocation(signerArray, si + 1)}
                /\ calls' = calls \o <<Event("fail", inv),
                                       Event("begin", Invocation(signerArray, si + 1))>>
                /\ spc' = "awaiting"
             \/ /\ ~(si + 1 < Len(txIns))
                /\ running' = {}
                /\ calls' = Append(calls, Event("fail", inv))
                /\ spc' = "resolved"
    /\ UNCHANGED <<txVars, defaultSigner, otherSigners, signerArray, serr,
                   fundVars, estVars, b40Vars>>

\* the awaited signer fails: the await throws, signInputs rejects with that error
SignerRejects ==
    /\ spc = "awaiting"
    /\ \E inv \in running, e \in SignerErrors :
          /\ sfail' = [index |-> inv.index, error |-> e]
          /\ serr' = e
          /\ calls' = Append(calls, Event("fail", inv))
    /\ running' = {}
    /\ spc' = "rejected"
    /\ UNCHANGED <<txVars, defaultSigner, otherSigners, signerArray, si,
                   fundVars, estVars, b40Vars>>

NextSign == SignInputsCall \/ SignerResolves \/ SignerRejects

UnsignedIns(n) ==
    {[i \in 1..k |-> [tx_hash |-> i, tx_output_n |-> 0, script |-> 0]] : k \in 0..n}

Overrides(n) ==
    UNION {[1..k -> [index : 0..(n - 1), signer : Signers \ {"default"}]] :
             k \in 0..MaxOverrides}

InitSign ==
    /\ txIns \in UnsignedIns(MaxSignIns)
    /\ txOuts = <<>>
    /\ defaultSigner = "default"
    /\ otherSigners \in Overrides(Len(txIns))
    /\ signerArray = <<>>
    /\ si = 0
    /\ spc = "call"
    /\ serr = "none"
    /\ running = {}
    /\ calls = <<>>
    /\ sfail = [index |-> -1, error |-> "none"]
    /\ IdleFund /\ IdleEst /\ IdleB40

SpecSign == InitSign /\ [][NextSign]_vars

(***************************************************************************)
(* decodeB40                                                               *)
(***************************************************************************)
characters ==
    <<"0", "1", "2", "3", "4", "5", "6", "7", "8", "9",
      "a", "b", "c", "d", "e", "f", "g", "h", "i", "j",
      "k", "l", "m", "n", "o", "p", "q", "r", "s", "t",
      "u", "v", "w", "x", "y", "z", "-", "_", ".", "+">>

\* String.prototype.indexOf on `characters`: 0-based, -1 when absent
indexOf(character) ==
    IF \E i \in 1..Len(characters) : characters[i] = character
    THEN (CHOOSE i \in 1..Len(characters) :
             /\ characters[i] = character
             /\ \A j \in 1..(i - 1) : characters[j] # character) - 1
    ELSE -1

Reverse(s) == [i \in 1..Len(s) |-> s[Len(s) + 1 - i]]

RECURSIVE Pow(_, _)
Pow(b, e) == IF e = 0 THEN 1 ELSE b * Pow(b, e - 1)

\* inputDigits.map((character, exponent) => indexOf(character) * 40^exponent)
digitValues(input) ==
    LET inputDigits == Reverse(input)
    IN [k \in 1..Len(inputDigits) |-> indexOf(inputDigits[k]) * Pow(40, k - 1)]

RECURSIVE SumSeq(_)
SumSeq(s) == IF s = <<>> THEN 0 ELSE Head(s) + SumSeq(Tail(s))

HexChars ==
    <<"0", "1", "2", "3", "4", "5", "6", "7", "8", "9", "a", "b", "c", "d", "e", "f">>

RECURSIVE HexDigits(_)
HexDigits(n) ==
    IF n < 16 THEN <<HexChars[n + 1]>>
    ELSE HexDigits(n \div 16) \o <<HexChars[(n % 16) + 1]>>

RECURSIVE PadTo(_, _)
PadTo(s, padding) == IF Len(s) % padding # 0 THEN PadTo(<<"0">> \o s, padding) ELSE s

\* BN.prototype.toString(16, padding)
toString16(n, padding) ==
    IF n < 0 THEN <<"-">> \o PadTo(HexDigits(-n), padding)
    ELSE PadTo(HexDigits(n), padding)

decodeB40(input) == toString16(SumSeq(digitValues(input)), 2)

\* decodeB40 has no throw statement: every call returns
DecodeB40Call ==
    /\ bpc = "call"
    /\ b40out' = decodeB40(b40in)
    /\ bpc' = "returned"
    /\ UNCHANGED <<b40in, txVars, fundVars, estVars, signVars>>

NextB40 == DecodeB40Call

\* characters of the inputs tried: four of the alphabet, two outside it
B40Chars == {"0", "1", "z", "+", "A", " "}

InitB40 ==
    /\ b40in \in UNION {[1..n -> B40Chars] : n \in 0..MaxB40Len}
    /\ bpc = "call"
    /\ b40out = <<>>
    /\ txIns = <<>> /\ txOuts = <<>>
    /\ IdleFund /\ IdleEst /\ IdleSign

SpecB40 == InitB40 /\ [][NextB40]_vars

(***************************************************************************)
(* Properties of addUTXOsToFund (checked under SpecFund)                    *)
(***************************************************************************)
\* the fee of one more input, feeRate x (41 + 107) bytes
OneInputFee == feeRate * (41 + 107)
\* the threshold of the current call frame
Threshold == amountToFund + (IF fundNewFees THEN OneInputFee ELSE 0)
\* the input that references a UTXO
InputOf(u) == [tx_hash |-> u.tx_hash, tx_output_n |-> u.tx_output_n, script |-> 0]
\* the inputs appended since the initial call, and the UTXOs they reference
Appended == SubSeq(txIns, Len(ins0) + 1, Len(txIns))
AppendedCount == Len(txIns) - Len(ins0)
RefersToPool(inp) ==
    /\ inp.tx_hash \in 1..Len(utxos0)
    /\ inp = InputOf(utxos0[inp.tx_hash])
AppendedValue(k) == utxos0[Appended[k].tx_hash].value
RECURSIVE SumValues(_)
SumValues(s) == IF s = <<>> THEN 0 ELSE Head(s).value + SumValues(Tail(s))
RECURSIVE SumAppended(_)
SumAppended(k) == IF k = 0 THEN 0 ELSE AppendedValue(k) + SumAppended(k - 1)
AppendedFromPool ==
    /\ Len(txIns) >= Len(ins0)
    /\ SubSeq(txIns, 1, Len(ins0)) = ins0
    /\ \A k \in 1..AppendedCount : RefersToPool(Appended[k])
    /\ \A k, l \in 1..AppendedCount : k # l => Appended[k].tx_hash # Appended[l].tx_hash
FeesOfAppended == IF fundNewFees THEN AppendedCount * OneInputFee ELSE 0
FundEnded == fpc \in {"returned", "thrown"}

\* C1: a non-empty pool of positive UTXOs whose total is at least amountToFund
\* plus the one-input fee for every UTXO of the pool is always funded: the call
\* returns (it does not throw) and the change is >= 0, in both fee modes.
C1_WorstCaseFunded ==
    (/\ FundEnded
     /\ utxos0 # <<>>
     /\ \A i \in 1..Len(utxos0) : utxos0[i].value > 0
     /\ feeRate > 0 /\ amount0 >= 0
     /\ SumValues(utxos0) >= amount0 + OneInputFee * Len(utxos0))
    => (fpc = "returned" /\ fres >= 0)

C1_Witness ==
    /\ fpc = "returned" /\ depth >= 1 /\ ~fundNewFees
    /\ SumValues(utxos0) >= amount0 + OneInputFee * Len(utxos0)

\* C2: on a successful return the k appended inputs reference pool UTXOs whose
\* values sum to at least amountToFund (+ k x newFees when fundNewFees), and the
\* change is exactly that sum minus amountToFund (minus k x newFees), so >= 0.
C2_ChangeAccounting ==
    fpc = "returned" =>
        /\ AppendedFromPool
        /\ AppendedCount = depth + 1
        /\ SumAppended(AppendedCount) >= amount0 + FeesOfAppended
        /\ fres = SumAppended(AppendedCount) - amount0 - FeesOfAppended
        /\ fres >= 0

C2_Witness == fpc = "returned" /\ depth >= 2 /\ fundNewFees /\ fres > 0

\* C3: in a call where some UTXO has value >= threshold, exactly one input is
\* appended, for a UTXO of minimum value among the sufficient ones, there is no
\* recursion and the call returns selected.value - amountToFund (- newFees);
\* pool [1000, 6000], amount 5000, fee rate 1, fee-inclusive, empty transaction
\* selects 6000 and returns 852.
C3_Example ==
    /\ Len(utxos0) = 2 /\ utxos0[1].value = 1000 /\ utxos0[2].value = 6000
    /\ amount0 = 5000 /\ feeRate = 1 /\ fundNewFees
    /\ ins0 = <<>> /\ txOuts = <<>>

C3_GreedySmallestFit ==
    /\ [][(fpc = "call" /\ \E i \in 1..Len(pool) : pool[i].value >= Threshold)
          => \E i \in 1..Len(pool) :
                /\ pool[i].value >= Threshold
                /\ \A j \in 1..Len(pool) :
                      pool[j].value >= Threshold => pool[i].value <= pool[j].value
                /\ txIns' = Append(txIns, InputOf(pool[i]))
                /\ fpc' = "returned"
                /\ depth' = depth
                /\ fres' = pool[i].value - amountToFund
                           - (IF fundNewFees THEN OneInputFee ELSE 0)]_vars
    /\ []((C3_Example /\ FundEnded)
          => (fpc = "returned" /\ fres = 852 /\ txIns = <<InputOf(utxos0[2])>>))

C3_Witness == C3_Example /\ fpc = "returned" /\ fres = 852 /\ depth = 0

\* C4: in a call with a non-empty pool and no UTXO >= threshold that appends an
\* input, the input is for a UTXO of maximum value in the pool, that UTXO is
\* removed from the pool of the recursive call, and the recursive call's
\* amountToFund is strictly smaller than the current one and strictly positive.
C4_RecursiveConsumption ==
    [][(/\ fpc = "call"
        /\ pool # <<>>
        /\ \A i \in 1..Len(pool) : pool[i].value < Threshold
        /\ txIns' # txIns)
       => \E i \in 1..Len(pool) :
             /\ \A j \in 1..Len(pool) : pool[j].value <= pool[i].value
             /\ txIns' = Append(txIns, InputOf(pool[i]))
             /\ Len(pool') = Len(pool) - 1
             /\ {pool'[k] : k \in 1..Len(pool')}
                  = {pool[k] : k \in 1..Len(pool)} \ {pool[i]}
             /\ fpc' = "call"
             /\ depth' = depth + 1
             /\ amountToFund' < amountToFund
             /\ amountToFund' > 0]_vars

C4_Witness == fpc = "call" /\ depth >= 2 /\ ~fundNewFees /\ pool # <<>>

\* C5: the insufficient-funds error is raised with an empty pool or with
\* newFees >= the largest remaining UTXO, and carries the amount still required:
\* the original amountToFund minus the values of the inputs appended, plus
\* newFees per appended input in fee-inclusive mode; for an initially empty pool
\* it carries amountToFund and nothing was appended.
C5_ErrorCarriesRemaining ==
    fpc = "thrown" =>
        /\ AppendedFromPool
        /\ \/ pool = <<>>
           \/ \A i \in 1..Len(pool) : OneInputFee >= pool[i].value
        /\ fres = amount0 - SumAppended(AppendedCount) + FeesOfAppended
        /\ utxos0 = <<>> => (fres = amount0 /\ txIns = ins0)

C5_Witness == fpc = "thrown" /\ depth >= 1 /\ fundNewFees /\ pool # <<>>

\* C6: when the error is raised after j fallback steps, the transaction holds its
\* original inputs followed by exactly the j appended inputs, which are for the j
\* largest UTXOs of the pool in descending value order; the failing step itself
\* appends nothing.
C6_PartialFundingPersists ==
    /\ [](fpc = "thrown" =>
            /\ AppendedFromPool
            /\ AppendedCount = depth
            /\ \A k \in 1..(AppendedCount - 1) : AppendedValue(k) >= AppendedValue(k + 1)
            /\ \A i \in 1..Len(utxos0) :
                  (\A k \in 1..AppendedCount : Appended[k].tx_hash # i)
                  => \A k \in 1..AppendedCount : utxos0[i].value <= AppendedValue(k))
    /\ [][(fpc = "call" /\ fpc' = "thrown") => txIns' = txIns]_vars

C6_Witness == fpc = "thrown" /\ depth >= 2 /\ AppendedCount = 2

(***************************************************************************)
(* Properties of signInputs (checked under SpecSign)                        *)
(***************************************************************************)
\* the signers the overrides list for input index i
ListedFor(i) ==
    {otherSigners[k].signer : k \in {l \in 1..Len(otherSigners) : otherSigners[l].index = i}}
\* the signer input index i must be signed with
IsAssigned(i, signer) ==
    IF ListedFor(i) # {} THEN signer \in ListedFor(i) ELSE signer = defaultSigner

\* C7: signers are invoked for the indices 0, 1, 2, ... in this order, each with
\* the override signer when the index is listed and the default signer otherwise;
\* an invocation begins only after the one before it has completed, so at most one
\* is in progress; a run without a failure makes exactly N invocations.
C7_SignerOrdering ==
    /\ Cardinality(running) <= 1
    /\ \A k \in 1..Len(calls) :
          IF k % 2 = 1
          THEN /\ calls[k].kind = "begin"
               /\ calls[k].index = (k - 1) \div 2
               /\ calls[k].index < Len(txIns)
               /\ IsAssigned(calls[k].index, calls[k].signer)
          ELSE /\ calls[k].kind \in {"end", "fail"}
               /\ calls[k].index = calls[k - 1].index
               /\ calls[k].signer = calls[k - 1].signer
    /\ \A k \in 1..(Len(calls) - 1) : calls[k].kind # "fail"
    /\ running = IF Len(calls) % 2 = 1
                 THEN {[index |-> calls[Len(calls)].index,
                        signer |-> calls[Len(calls)].signer]}
                 ELSE {}
    /\ spc = "resolved" =>
          /\ Len(calls) = 2 * Len(txIns)
          /\ \A k \in 1..Len(calls) : calls[k].kind # "fail"

C7_Witness ==
    /\ spc = "resolved"
    /\ Len(txIns) = 3
    /\ otherSigners = <<[index |-> 1, signer |-> "s1"]>>
    /\ calls[1].signer = "default" /\ calls[3].signer = "s1" /\ calls[5].signer = "default"

\* C8: when the signer of input index i fails, signInputs rejects with that same
\* error, no signer is invoked for an index above i, and the unlocking scripts
\* attached for the indices 0..i-1 are still on the transaction.
C8_SignerFailure ==
    /\ sfail.index # -1 => spc = "rejected"
    /\ spc = "rejected" =>
          /\ sfail.index \in 0..(Len(txIns) - 1)
          /\ serr = sfail.error
          /\ serr \in SignerErrors
          /\ running = {}
          /\ calls[Len(calls)].kind = "fail"
          /\ calls[Len(calls)].index = sfail.index
          /\ \A k \in 1..Len(calls) : calls[k].index <= sfail.index
          /\ \A j \in 0..(sfail.index - 1) : txIns[j + 1].script \in SigLens
          /\ \A j \in sfail.index..(Len(txIns) - 1) : txIns[j + 1].script = 0

C8_Witness ==
    /\ spc = "rejected" /\ Len(txIns) = 3 /\ sfail.index = 1
    /\ txIns[1].script \in SigLens

(***************************************************************************)
(* Properties of decodeB40 (checked under SpecB40)                          *)
(***************************************************************************)
HasInvalidChar(input) ==
    \E i \in 1..Len(input) : \A j \in 1..Len(characters) : characters[j] # input[i]

\* C9: for an input with a character outside the alphabet decodeB40 ends in an
\* error and returns no decoded value.
C9_InvalidInputRaises ==
    (bpc \in {"returned", "thrown"} /\ HasInvalidChar(b40in)) => bpc = "thrown"

(***************************************************************************)
(* Properties of estimateTXBytes (checked under SpecEst)                    *)
(***************************************************************************)
Scriptless(s) == \A i \in 1..Len(s) : s[i].script = 0

\* C10: for a transaction whose inputs and outputs have no script,
\* estimateTXBytes(tx, a, b) - estimateTXBytes(tx, 0, 0) = a x (41 + 107) +
\* b x (9 + 25); the empty transaction without additions is 10 bytes; an
\* estimate does not modify the transaction.
C10_EstimatorDelta ==
    /\ [](est.called =>
            /\ (Scriptless(txIns) /\ Scriptless(txOuts))
               => est.size - est.base = est.a * (41 + 107) + est.b * (9 + 25)
            /\ (txIns = <<>> /\ txOuts = <<>>) => est.base = 10)
    /\ [][est' # est => (txIns' = txIns /\ txOuts' = txOuts)]_vars

C10_Witness ==
    /\ est.called /\ est.a = 2 /\ est.b = 1
    /\ Len(txIns) = 2 /\ Len(txOuts) = 1
    /\ Scriptless(txIns) /\ Scriptless(txOuts)
    /\ est.size - est.base = 330

(***************************************************************************)
(* Frame of addUTXOsToFund (checked under SpecFund)                         *)
(***************************************************************************)
\* C11: a call of addUTXOsToFund, returned or thrown, leaves the caller's pool
\* array with the same UTXOs in the same order as before the call, and leaves
\* the inputs the transaction already had in place; it only appends inputs.
\* (Every step of the funder leaves txOuts unchanged.)
C11_FunderFrame ==
    FundEnded =>
        /\ utxos = utxos0
        /\ Len(txIns) >= Len(ins0)
        /\ SubSeq(txIns, 1, Len(ins0)) = ins0

====
